---- MODULE Spec2Model ----
(***************************************************************************)
(* Model of src/main.rs (RSNVs): point mutations are applied to contigs    *)
(* and the mutated gene sequences are sliced out by gene coordinates.      *)
(*                                                                         *)
(* Text is modelled as sequences of one-character strings, so that         *)
(* trimming, integer parsing, "first character of a field" and slicing are *)
(* computed the way the code computes them.  Tokenisation of a line into   *)
(* fields (csv crate, str::split) is taken as given: an input row is a     *)
(* sequence of fields.                                                     *)
(***************************************************************************)
EXTENDS Integers, Sequences, FiniteSets, TLC

(***************************************************************************)
(* Bounds of the model.                                                    *)
(***************************************************************************)
MaxGeneRows == 2
MaxMutRows == 2
MaxThreads == 2

(***************************************************************************)
(* usize.  TLC's integers are 32 bits wide, so the largest usize is        *)
(* represented by the largest TLC integer: every length, position and      *)
(* coordinate of the model is far below it, which is all the code's        *)
(* comparisons need after a wrapping `x - 1` at x = 0.                     *)
(***************************************************************************)
UsizeMax == 2^30 + (2^30 - 1)

\* `x - 1` on usize in a build without overflow checks (release profile)
WrapSub1(x) == IF x = 0 THEN UsizeMax ELSE x - 1

(***************************************************************************)
(* Text helpers                                                            *)
(***************************************************************************)
Digits == <<"0", "1", "2", "3", "4", "5", "6", "7", "8", "9">>

IsDigit(ch) == \E i \in DOMAIN Digits : Digits[i] = ch

DigitVal(ch) == (CHOOSE i \in DOMAIN Digits : Digits[i] = ch) - 1

IsSpace(ch) == ch \in {" ", "\t"}

RECURSIVE TrimStart(_)
TrimStart(s) == IF s # << >> /\ IsSpace(Head(s)) THEN TrimStart(Tail(s)) ELSE s

RECURSIVE TrimEnd(_)
TrimEnd(s) ==
    IF s # << >> /\ IsSpace(s[Len(s)]) THEN TrimEnd(SubSeq(s, 1, Len(s) - 1)) ELSE s

\* str::trim
Trim(s) == TrimEnd(TrimStart(s))

ParseErr == -1

RECURSIVE DigitsValue(_, _)
DigitsValue(s, acc) ==
    IF s = << >> THEN acc ELSE DigitsValue(Tail(s), acc * 10 + DigitVal(Head(s)))

\* str::parse::<usize>: an optional leading '+', then one or more decimal
\* digits; anything else (empty, '-', blanks, letters) is an Err.
ParseUsize(s) ==
    LET body == IF s # << >> /\ Head(s) = "+" THEN Tail(s) ELSE s
    IN  IF body # << >> /\ \A i \in DOMAIN body : IsDigit(body[i])
        THEN DigitsValue(body, 0)
        ELSE ParseErr

(***************************************************************************)
(* Identifiers and the inputs of a run                                     *)
(***************************************************************************)
C1 == <<"c", "1">>
C2 == <<"c", "2">>
C3 == <<"c", "3">>
G1 == <<"g", "1">>
G2 == <<"g", "2">>

\* The contigs file, line by line: c1 = AC, c2 = GT (on two lines), and a
\* record c3 without sequence lines.
ContigsFile ==
    << <<">", "c", "1">>, <<"A", "C">>,
       <<">", "c", "3">>,
       <<">", "c", "2">>, <<"G">>, <<"T">> >>

\* Rows a gene coordinates file is made of: contig_id, gene_id, start, end
GeneRows ==
    { <<C1, G1, <<"1">>, <<"2">>>>,
      <<C1, G1, <<"2">>, <<"2">>>>,
      <<C2, G1, <<"1">>, <<"1">>>>,
      <<C2, G2, <<" ", "1">>, <<"2", " ">>>>,
      <<C1, G2, <<"1">>, <<"3">>>>,
      <<C1, G2, <<"0">>, <<"1">>>>,
      <<C1, G2, <<"2">>, <<"1">>>>,
      <<C3, G2, <<"1">>, <<"1">>>>,
      <<C1, G2, <<"x">>, <<"1">>>>,
      <<C1, G1, <<"1">>>> }

\* The same ids and spans without the malformed rows, for runs over longer
\* files: two genes, a gene id shared across contigs, an absent contig, an
\* end beyond the contig, a start of 0.
GeneRowsShared ==
    { <<C1, G1, <<"1">>, <<"2">>>>,
      <<C2, G1, <<"1">>, <<"1">>>>,
      <<C3, G2, <<"1">>, <<"1">>>>,
      <<C1, G2, <<"1">>, <<"3">>>>,
      <<C1, G2, <<"0">>, <<"1">>>> }

\* Rows a mutations file is made of: contig_id, position, base
MutRows ==
    { <<C1, <<"1">>, <<"T">>>>,
      <<C1, <<"0">>, <<"T">>>> }

\* More mutation rows: two bases for one position, a second character after
\* the base, a blank before the position, an empty base, a short row
MutRowsRich ==
    { <<C1, <<"1">>, <<"T">>>>,
      <<C1, <<"1">>, <<"G", "x">>>>,
      <<C1, <<"2">>, <<"G">>>>,
      <<C1, <<"0">>, <<"T">>>>,
      <<C2, <<" ", "1">>, <<"A">>>>,
      <<C2, <<"1">>, << >>>>,
      <<C2, <<"1">>>> }

\* The gene rows of the runs over those mutation files
GeneRowsFew ==
    { <<C1, G1, <<"1">>, <<"2">>>>,
      <<C1, G2, <<"0">>, <<"1">>>>,
      <<C2, G2, <<"1">>, <<"2">>>> }

SeqsUpTo(S, n) == UNION { [1..k -> S] : k \in 0..n }

VARIABLES
    pc,                  \* where gene_snv_replace / main stands
    mutations_file,      \* input: rows of the mutations file
    gene_positions_file, \* input: rows of the gene coordinates file
    num_threads,         \* input: size of the worker pool
    contigs,             \* contig id -> sequence
    mutations,           \* Vec<(contig, position, base)>
    gene_positions_map,  \* contig id -> Vec<GeneInfo>
    gene_contigs_map,    \* gene id -> Vec<GeneInfo>
    task_idx,            \* per-gene task: records of its list already processed
    mutated_genes,       \* the shared result collection (under the RwLock)
    stored_from,         \* gene id -> the record whose working copy is stored
    mutated_genes_result,\* gene id -> extracted sequence
    sliced_by,           \* gene id -> the record whose coordinates sliced it
    extracted,           \* gene ids the extraction step has visited
    diag,                \* diagnostics written to stderr
    overflow_checks      \* the build profile, as far as the run has shown it

vars == <<pc, mutations_file, gene_positions_file, num_threads, contigs, mutations,
          gene_positions_map, gene_contigs_map, task_idx, mutated_genes,
          stored_from, mutated_genes_result, sliced_by, extracted, diag,
          overflow_checks>>

inputs == <<mutations_file, gene_positions_file, num_threads>>

\* `x - 1` at x = 0 panics in a build with overflow checks (the debug
\* profile) and wraps in one without (the release profile).  The profile is
\* "unknown" until the run evaluates such a subtraction; a run that wrapped
\* is a run of a build without the checks ("off") from then on, and a run
\* that panicked has ended.
ChecksMayBeOn == overflow_checks = "unknown"

EmptyMap == << >>

\* HashMap::insert
Insert(m, k, v) == [x \in DOMAIN m \cup {k} |-> IF x = k THEN v ELSE m[x]]

(***************************************************************************)
(* read_contigs                                                            *)
(***************************************************************************)
RECURSIVE ReadContigsFrom(_, _, _, _)
ReadContigsFrom(lines, acc, current_id, current_sequence) ==
    LET flushed == IF current_id # << >> /\ current_sequence # << >>
                   THEN Insert(acc, current_id, current_sequence)
                   ELSE acc
    IN  IF lines = << >> THEN flushed
        ELSE LET line == Head(lines)
             IN  IF line # << >> /\ Head(line) = ">"
                 THEN ReadContigsFrom(Tail(lines), flushed, Tail(line), << >>)
                 ELSE ReadContigsFrom(Tail(lines), acc, current_id,
                                      current_sequence \o line)

read_contigs(lines) == ReadContigsFrom(lines, EmptyMap, << >>, << >>)

(***************************************************************************)
(* read_mutations                                                          *)
(***************************************************************************)
\* One line of the mutations file: << >> when the row is dropped, else the
\* one-element sequence holding the (contig, position, base) pushed.
MutationOfRow(parts) ==
    IF Len(parts) = 3
    THEN LET position == ParseUsize(parts[2])
         IN  IF position # ParseErr /\ parts[3] # << >>
             THEN << <<parts[1], position, Head(parts[3])>> >>
             ELSE << >>
    ELSE << >>

RECURSIVE read_mutations(_)
read_mutations(rows) ==
    IF rows = << >> THEN << >>
    ELSE MutationOfRow(Head(rows)) \o read_mutations(Tail(rows))

(***************************************************************************)
(* read_gene_positions                                                     *)
(***************************************************************************)
GeneInfo(contig_id, start_position, end_position, gene_id) ==
    [contig_id |-> contig_id, start_position |-> start_position,
     end_position |-> end_position, gene_id |-> gene_id]

\* A row the loop body indexes: four trimmed fields, both coordinates parse.
RowAccepted(record) ==
    /\ Len(record) = 4
    /\ ParseUsize(Trim(record[3])) # ParseErr
    /\ ParseUsize(Trim(record[4])) # ParseErr

GeneInfoOfRow(record) ==
    GeneInfo(Trim(record[1]), ParseUsize(Trim(record[3])),
             ParseUsize(Trim(record[4])), Trim(record[2]))

RowDiagnostic(record) ==
    IF Len(record) # 4 THEN {<<"Invalid row format", record>>}
    ELSE IF ParseUsize(Trim(record[3])) = ParseErr
         THEN {<<"Error parsing start_position field", record>>}
         ELSE IF ParseUsize(Trim(record[4])) = ParseErr
              THEN {<<"Error parsing end_position field", record>>}
              ELSE {}

\* gene_positions_map.entry(contig_id).or_insert(vec![]).push(gene_info)
PushEntry(m, k, v) ==
    Insert(m, k, IF k \in DOMAIN m THEN Append(m[k], v) ELSE <<v>>)

\* The csv reader is built without flexible(true): a record whose number of
\* fields differs from the first record's is a csv::Error, which `?` returns.
CsvError(rows) == \E i \in DOMAIN rows : Len(rows[i]) # Len(rows[1])

RECURSIVE GenePositionsFrom(_, _)
GenePositionsFrom(rows, acc) ==
    IF rows = << >> THEN acc
    ELSE LET record == Head(rows)
         IN  GenePositionsFrom(Tail(rows),
                 IF RowAccepted(record)
                 THEN PushEntry(acc, Trim(record[1]), GeneInfoOfRow(record))
                 ELSE acc)

read_gene_positions(rows) == GenePositionsFrom(rows, EmptyMap)

GenePositionsDiag(rows) == UNION { RowDiagnostic(rows[i]) : i \in DOMAIN rows }

(***************************************************************************)
(* gene_snv_replace: grouping by gene id                                   *)
(***************************************************************************)
\* The orders in which HashMap::values() may visit the keys of m
IterationOrders(m) ==
    { p \in [1..Cardinality(DOMAIN m) -> DOMAIN m] :
        \A i, j \in DOMAIN p : i # j => p[i] # p[j] }

RECURSIVE Flatten(_, _)
Flatten(m, order) ==
    IF order = << >> THEN << >> ELSE m[Head(order)] \o Flatten(m, Tail(order))

RECURSIVE GroupByGene(_, _)
GroupByGene(flat, acc) ==
    IF flat = << >> THEN acc
    ELSE GroupByGene(Tail(flat), PushEntry(acc, Head(flat).gene_id, Head(flat)))

(***************************************************************************)
(* gene_snv_replace: the per-record mutation of a working copy             *)
(***************************************************************************)
MinOf(S) == CHOOSE x \in S : \A y \in S : x <= y
MaxOf(S) == CHOOSE x \in S : \A y \in S : x >= y

MatchingRows(contig_id, position) ==
    { i \in DOMAIN mutations :
        mutations[i][1] = contig_id /\ mutations[i][2] = position }

\* A slip: the last matching row instead of the first
FindMutationLast(contig_id, position) ==
    IF MatchingRows(contig_id, position) = {} THEN 0
    ELSE MaxOf(MatchingRows(contig_id, position))

\* mutations.iter().find(..): index of the first matching row, 0 for None
FindMutation(contig_id, position) ==
    IF MatchingRows(contig_id, position) = {} THEN 0
    ELSE MinOf(MatchingRows(contig_id, position))

RECURSIVE ApplyMutations(_, _, _, _)
ApplyMutations(mutated_contig, contig_id, position, end_position) ==
    IF position > end_position THEN mutated_contig
    ELSE LET hit == FindMutation(contig_id, position)
             gene_position == WrapSub1(position)
         IN  ApplyMutations(
                 IF hit # 0 /\ gene_position < Len(mutated_contig)
                 THEN [mutated_contig EXCEPT ![gene_position + 1] = mutations[hit][3]]
                 ELSE mutated_contig,
                 contig_id, position + 1, end_position)

MutatedSequence(gene_info) ==
    ApplyMutations(contigs[gene_info.contig_id], gene_info.contig_id,
                   gene_info.start_position, gene_info.end_position)

\* `position - 1` is evaluated at position 0: the range holds 0 and a
\* mutation row names position 0 of the record's contig.
EngineUnderflow(gene_info) ==
    /\ gene_info.start_position = 0
    /\ gene_info.start_position <= gene_info.end_position
    /\ FindMutation(gene_info.contig_id, 0) # 0

(***************************************************************************)
(* gene_snv_replace: extraction                                            *)
(***************************************************************************)
\* Indexes of the records of a list whose contig the store holds
PresentRecords(gene_info_list) ==
    { i \in DOMAIN gene_info_list : gene_info_list[i].contig_id \in DOMAIN contigs }

\* &s[start..end] panics unless start <= end <= len
SliceInRange(s, start, end) == start <= end /\ end <= Len(s)

Slice(s, start, end) == SubSeq(s, start + 1, end)

(***************************************************************************)
(* The run: main -> gene_snv_replace                                       *)
(***************************************************************************)
InitOf(gene_files, mutation_files) ==
    /\ pc = "read_contigs"
    /\ mutations_file \in mutation_files
    /\ gene_positions_file \in gene_files
    /\ num_threads \in {1, MaxThreads}
    /\ contigs = EmptyMap
    /\ mutations = << >>
    /\ gene_positions_map = EmptyMap
    /\ gene_contigs_map = EmptyMap
    /\ task_idx = EmptyMap
    /\ mutated_genes = EmptyMap
    /\ stored_from = EmptyMap
    /\ mutated_genes_result = EmptyMap
    /\ sliced_by = EmptyMap
    /\ extracted = {}
    /\ diag = {}
    /\ overflow_checks = "unknown"

Init == InitOf(SeqsUpTo(GeneRows, MaxGeneRows), SeqsUpTo(MutRows, MaxMutRows))

\* Files one row longer, over the rows without malformed ones
InitShared == InitOf(SeqsUpTo(GeneRowsShared, MaxGeneRows + 1), SeqsUpTo(MutRows, MaxMutRows))

\* The richer mutation files
InitMut == InitOf(SeqsUpTo(GeneRowsFew, MaxGeneRows), SeqsUpTo(MutRowsRich, MaxMutRows))

\* let contigs = read_contigs(contigs_file)?;
ReadContigs ==
    /\ pc = "read_contigs"
    /\ contigs' = read_contigs(ContigsFile)
    /\ pc' = "read_mutations"
    /\ UNCHANGED <<inputs, mutations, gene_positions_map, gene_contigs_map, task_idx,
                   mutated_genes, stored_from, mutated_genes_result, sliced_by,
                   extracted, diag, overflow_checks>>

\* let mutations = read_mutations(mutations_file)?;
ReadMutations ==
    /\ pc = "read_mutations"
    /\ mutations' = read_mutations(mutations_file)
    /\ pc' = "read_gene_positions"
    /\ UNCHANGED <<inputs, contigs, gene_positions_map, gene_contigs_map, task_idx,
                   mutated_genes, stored_from, mutated_genes_result, sliced_by,
                   extracted, diag, overflow_checks>>

\* let gene_positions_map = read_gene_positions(gene_positions_file).map_err(..)?;
\* The rows before a csv error are read and diagnosed, then Err is returned
\* and main exits with a failure status.
ReadGenePositions ==
    /\ pc = "read_gene_positions"
    /\ IF CsvError(gene_positions_file)
       THEN LET bad == MinOf({ i \in DOMAIN gene_positions_file :
                                 Len(gene_positions_file[i]) # Len(gene_positions_file[1]) })
            IN  /\ pc' = "error"
                /\ diag' = diag \cup GenePositionsDiag(SubSeq(gene_positions_file, 1, bad - 1))
                                \cup {<<"Error reading gene positions", gene_positions_file[bad]>>}
                /\ UNCHANGED gene_positions_map
       ELSE /\ pc' = "organize"
            /\ gene_positions_map' = read_gene_positions(gene_positions_file)
            /\ diag' = diag \cup GenePositionsDiag(gene_positions_file)
    /\ UNCHANGED <<inputs, contigs, mutations, gene_contigs_map, task_idx, mutated_genes,
                   stored_from, mutated_genes_result, sliced_by, extracted,
                   overflow_checks>>

\* Lines 63-72: the pool and the empty result collection are created and
\* gene_contigs_map is filled from gene_positions_map.values().flatten().
Organize ==
    /\ pc = "organize"
    /\ \E order \in IterationOrders(gene_positions_map) :
          gene_contigs_map' = GroupByGene(Flatten(gene_positions_map, order), EmptyMap)
    /\ task_idx' = [g \in DOMAIN gene_contigs_map' |-> 0]
    /\ mutated_genes' = EmptyMap
    /\ pc' = "engine"
    /\ UNCHANGED <<inputs, contigs, mutations, gene_positions_map, stored_from,
                   mutated_genes_result, sliced_by, extracted, diag, overflow_checks>>

\* Per-gene tasks a worker has begun and not finished
Running ==
    { g \in DOMAIN task_idx : 0 < task_idx[g] /\ task_idx[g] < Len(gene_contigs_map[g]) }

\* A worker may run the task's next record: the task is on a worker already,
\* or a worker of the pool is free to take it.  The main thread waits inside
\* pool.install meanwhile; the insert takes the write lock, which the read
\* guard of line 106 (held to the end of the function) would refuse.
Schedulable(g) ==
    /\ pc = "engine"
    /\ g \in DOMAIN task_idx
    /\ task_idx[g] < Len(gene_contigs_map[g])
    /\ (g \in Running \/ Cardinality(Running) < num_threads)

\* A slip: the result is stored under the contig id
StoreKeyContig(gene_id, gene_info) == gene_info.contig_id

\* The key of the insert at line 97: gene_id.clone()
StoreKey(gene_id, gene_info) == gene_id

\* A slip: entry(..).or_insert(..), which keeps the value already stored
StoreKeepFirst(m, k, v) == IF k \in DOMAIN m THEN m ELSE Insert(m, k, v)

\* (*mutated_genes_clone.write().unwrap()).insert(k, v), under the write lock
Store(m, k, v) == Insert(m, k, v)

\* One pass of the loop body at lines 78-101 for the next record of gene g.
\* Within it only the insert touches shared state, and it runs under the
\* exclusive write lock, so the pass is one step.
TaskStep(g) ==
    /\ Schedulable(g)
    /\ LET gene_info == gene_contigs_map[g][task_idx[g] + 1]
           contig_id == gene_info.contig_id
       IN  IF contig_id \in DOMAIN contigs
           THEN /\ mutated_genes' = Store(mutated_genes, StoreKey(g, gene_info),
                                          MutatedSequence(gene_info))
                /\ stored_from' = Insert(stored_from, StoreKey(g, gene_info), gene_info)
                /\ UNCHANGED diag
           ELSE /\ diag' = diag \cup {<<"no contig sequence", contig_id>>}
                /\ UNCHANGED <<mutated_genes, stored_from>>
    /\ task_idx' = [task_idx EXCEPT ![g] = @ + 1]
    /\ overflow_checks' =
          IF gene_contigs_map[g][task_idx[g] + 1].contig_id \in DOMAIN contigs
             /\ EngineUnderflow(gene_contigs_map[g][task_idx[g] + 1])
          THEN "off" ELSE overflow_checks
    /\ UNCHANGED <<pc, inputs, contigs, mutations, gene_positions_map, gene_contigs_map,
                   mutated_genes_result, sliced_by, extracted>>

\* The same pass in a build with overflow checks (debug profile): `position - 1`
\* at position 0 panics, and the panic leaves the pool and ends the process.
TaskPanic(g) ==
    /\ Schedulable(g)
    /\ ChecksMayBeOn
    /\ LET gene_info == gene_contigs_map[g][task_idx[g] + 1]
       IN  /\ gene_info.contig_id \in DOMAIN contigs
           /\ EngineUnderflow(gene_info)
    /\ pc' = "panicked"
    /\ diag' = diag \cup {<<"panic: subtract with overflow", g>>}
    /\ UNCHANGED <<inputs, contigs, mutations, gene_positions_map, gene_contigs_map,
                   task_idx, mutated_genes, stored_from, mutated_genes_result, sliced_by,
                   extracted, overflow_checks>>

\* A slip: the pool is left as soon as one task has finished
EngineFinishedAny ==
    \E g \in DOMAIN task_idx : task_idx[g] = Len(gene_contigs_map[g])

\* pool.install(..) and for_each return when every task has run to its end
EngineFinished ==
    \A g \in DOMAIN task_idx : task_idx[g] = Len(gene_contigs_map[g])

\* let mutated_genes_read = mutated_genes.read().unwrap();
AcquireRead ==
    /\ pc = "engine"
    /\ EngineFinished
    /\ pc' = "extract"
    /\ UNCHANGED <<inputs, contigs, mutations, gene_positions_map, gene_contigs_map,
                   task_idx, mutated_genes, stored_from, mutated_genes_result, sliced_by,
                   extracted, diag, overflow_checks>>

\* A slip: the 1-based start is used as the 0-based offset
ExtractStartOneBased(gene_info) == gene_info.start_position

\* let start = gene_info.start_position - 1;
ExtractStart(gene_info) == WrapSub1(gene_info.start_position)

\* let end = gene_info.end_position;
ExtractEnd(gene_info) == gene_info.end_position

\* Diagnostics of the records the loop at line 112 passes before index i
AbsentBefore(gene_info_list, i) ==
    { <<"no contig sequence", gene_info_list[j].contig_id>> :
        j \in { k \in DOMAIN gene_info_list :
                  k < i /\ gene_info_list[k].contig_id \notin DOMAIN contigs } }

\* The closure at lines 109-129 for gene g, when it returns (Some or None).
\* The genes are visited in the map's iteration order, which is any order.
ExtractGene(g) ==
    /\ pc = "extract"
    /\ g \in DOMAIN gene_contigs_map \ extracted
    /\ LET gene_info_list == gene_contigs_map[g]
           present == PresentRecords(gene_info_list)
       IN  IF g \notin DOMAIN mutated_genes
           THEN /\ diag' = diag \cup {<<"no mutated gene", g>>}
                /\ UNCHANGED <<mutated_genes_result, sliced_by>>
           ELSE IF present = {}
                THEN /\ diag' = diag \cup AbsentBefore(gene_info_list,
                                                      Len(gene_info_list) + 1)
                     /\ UNCHANGED <<mutated_genes_result, sliced_by>>
                ELSE LET gene_info == gene_info_list[MinOf(present)]
                         start == ExtractStart(gene_info)
                         end == ExtractEnd(gene_info)
                     IN  /\ SliceInRange(mutated_genes[g], start, end)
                         /\ mutated_genes_result' =
                                Insert(mutated_genes_result, g,
                                       Slice(mutated_genes[g], start, end))
                         /\ sliced_by' = Insert(sliced_by, g, gene_info)
                         /\ diag' = diag \cup AbsentBefore(gene_info_list, MinOf(present))
    /\ extracted' = extracted \cup {g}
    /\ UNCHANGED <<pc, inputs, contigs, mutations, gene_positions_map, gene_contigs_map,
                   task_idx, mutated_genes, stored_from, overflow_checks>>

\* The closure panics: `start_position - 1` at 0 with overflow checks, or the
\* slice &mutated_sequence[start..end] out of range.  The process ends.
ExtractPanic(g) ==
    /\ pc = "extract"
    /\ g \in DOMAIN gene_contigs_map \ extracted
    /\ g \in DOMAIN mutated_genes
    /\ PresentRecords(gene_contigs_map[g]) # {}
    /\ LET gene_info == gene_contigs_map[g][MinOf(PresentRecords(gene_contigs_map[g]))]
       IN  \/ /\ gene_info.start_position = 0
              /\ ChecksMayBeOn
              /\ diag' = diag \cup {<<"panic: subtract with overflow", g>>}
           \/ /\ ~SliceInRange(mutated_genes[g], ExtractStart(gene_info),
                               ExtractEnd(gene_info))
              /\ diag' = diag \cup {<<"panic: slice index out of range", g>>}
    /\ pc' = "panicked"
    /\ UNCHANGED <<inputs, contigs, mutations, gene_positions_map, gene_contigs_map,
                   task_idx, mutated_genes, stored_from, mutated_genes_result, sliced_by,
                   extracted, overflow_checks>>

\* Lines 133-142: the records are written and Ok(mutated_genes_result) is
\* returned; main returns Ok(()).
WriteOutput ==
    /\ pc = "extract"
    /\ extracted = DOMAIN gene_contigs_map
    /\ pc' = "done"
    /\ UNCHANGED <<inputs, contigs, mutations, gene_positions_map, gene_contigs_map,
                   task_idx, mutated_genes, stored_from, mutated_genes_result, sliced_by,
                   extracted, diag, overflow_checks>>

Next ==
    \/ ReadContigs
    \/ ReadMutations
    \/ ReadGenePositions
    \/ Organize
    \/ \E g \in DOMAIN task_idx : TaskStep(g)
    \/ \E g \in DOMAIN task_idx : TaskPanic(g)
    \/ AcquireRead
    \/ \E g \in DOMAIN gene_contigs_map : ExtractGene(g)
    \/ \E g \in DOMAIN gene_contigs_map : ExtractPanic(g)
    \/ WriteOutput

Spec == Init /\ [][Next]_vars

SpecShared == InitShared /\ [][Next]_vars

SpecMut == InitMut /\ [][Next]_vars

(***************************************************************************)
(* What the properties below are stated in: the inputs as files, and the   *)
(* sequence a record's working copy ought to be.                           *)
(***************************************************************************)
\* Rows of the mutations file that are accepted and name (contig_id, position)
InputRowsAt(contig_id, position) ==
    { i \in DOMAIN mutations_file :
        /\ MutationOfRow(mutations_file[i]) # << >>
        /\ MutationOfRow(mutations_file[i])[1][1] = contig_id
        /\ MutationOfRow(mutations_file[i])[1][2] = position }

InputBase(i) == Head(mutations_file[i][3])

\* The contig of record r with the first-row base at every mutated position
\* of r's span, and the original base everywhere else
ExpectedCopy(r) ==
    [p \in 1..Len(contigs[r.contig_id]) |->
        IF /\ r.start_position <= p
           /\ p <= r.end_position
           /\ InputRowsAt(r.contig_id, p) # {}
        THEN InputBase(MinOf(InputRowsAt(r.contig_id, p)))
        ELSE contigs[r.contig_id][p]]

\* The accepted rows of the gene coordinates file as records, in file order
RECURSIVE AcceptedRecords(_)
AcceptedRecords(rows) ==
    IF rows = << >> THEN << >>
    ELSE (IF RowAccepted(Head(rows)) THEN <<GeneInfoOfRow(Head(rows))>> ELSE << >>)
         \o AcceptedRecords(Tail(rows))

FirstInInput(g) ==
    SelectSeq(AcceptedRecords(gene_positions_file), LAMBDA r : r.gene_id = g)[1]

\* The record extraction takes the coordinates of gene g from
SelectedRecord(g) == gene_contigs_map[g][MinOf(PresentRecords(gene_contigs_map[g]))]

WellFormed(r) ==
    /\ r.contig_id \in DOMAIN contigs
    /\ 1 <= r.start_position
    /\ r.start_position <= r.end_position

InRange(r) == WellFormed(r) /\ r.end_position <= Len(contigs[r.contig_id])

(***************************************************************************)
(* C1.  Every base of an output sequence is the mutation's base where the  *)
(* mutation table has a mutation at that position of the gene's contig,    *)
(* and the original contig's base otherwise; also for gene ids with more   *)
(* than one coordinate record.  Read in the code's favour: the record is   *)
(* the one whose coordinates sliced the output, and where several rows     *)
(* name the position any of their bases will do.                           *)
(***************************************************************************)
C1_OutputIsMutatedSpan ==
    \A g \in DOMAIN mutated_genes_result :
        LET r == sliced_by[g]
        IN  \A p \in r.start_position..r.end_position :
                IF InputRowsAt(r.contig_id, p) # {}
                THEN \E i \in InputRowsAt(r.contig_id, p) :
                        mutated_genes_result[g][p - r.start_position + 1] = InputBase(i)
                ELSE mutated_genes_result[g][p - r.start_position + 1]
                        = contigs[r.contig_id][p]

(***************************************************************************)
(* C2.  A record whose end lies beyond its contig is skipped and the run   *)
(* completes: the process never panics at a gene whose selected record is  *)
(* well formed (1 <= start <= end) with end beyond the stored sequence.    *)
(***************************************************************************)
C2_EndBeyondContigSkipped ==
    \A g \in DOMAIN gene_contigs_map :
        (/\ pc = "panicked"
         /\ <<"panic: slice index out of range", g>> \in diag
         /\ g \in DOMAIN mutated_genes
         /\ PresentRecords(gene_contigs_map[g]) # {})
        => ~(/\ WellFormed(SelectedRecord(g))
             /\ SelectedRecord(g).end_position > Len(mutated_genes[g]))

(***************************************************************************)
(* C3.  When a record names a contig the store does not hold, the run      *)
(* does not abort: when it has ended, every gene with a record on a        *)
(* present contig and in-range coordinates is in the output with its       *)
(* sequence.  Read in the code's favour: only genes with one record on a   *)
(* present contig are asked for their sequence, and only in runs whose     *)
(* records all have a start of 1 or more.                                  *)
(***************************************************************************)
HasAbsentRecord ==
    \E g \in DOMAIN gene_contigs_map : \E i \in DOMAIN gene_contigs_map[g] :
        gene_contigs_map[g][i].contig_id \notin DOMAIN contigs

StartsPositive ==
    \A g \in DOMAIN gene_contigs_map : \A i \in DOMAIN gene_contigs_map[g] :
        gene_contigs_map[g][i].start_position >= 1

C3_AbsentContigSkipped ==
    (HasAbsentRecord /\ StartsPositive /\ pc \in {"done", "panicked"})
    => \A g \in DOMAIN gene_contigs_map :
         \A i \in PresentRecords(gene_contigs_map[g]) :
            LET r == gene_contigs_map[g][i]
            IN  (InRange(r) /\ Cardinality(PresentRecords(gene_contigs_map[g])) = 1)
                => /\ g \in DOMAIN mutated_genes_result
                   /\ mutated_genes_result[g]
                        = SubSeq(ExpectedCopy(r), r.start_position, r.end_position)

(***************************************************************************)
(* C4.  Two mutation rows for one (contig, position).  As claimed: the     *)
(* working copy stored for a gene whose span covers the position holds the *)
(* base of the later input row.                                            *)
(***************************************************************************)
MutatedPositions(g) ==
    { p \in stored_from[g].start_position..stored_from[g].end_position :
        /\ 1 <= p
        /\ p <= Len(mutated_genes[g])
        /\ InputRowsAt(stored_from[g].contig_id, p) # {} }

C4_LaterRowWins ==
    \A g \in DOMAIN stored_from :
        \A p \in MutatedPositions(g) :
            mutated_genes[g][p]
                = InputBase(MaxOf(InputRowsAt(stored_from[g].contig_id, p)))

\* C4 as amended: the working copy holds the base of the earliest input row
\* that names the position, in every state of every interleaving.
C4_FirstRowWins ==
    \A g \in DOMAIN stored_from :
        \A p \in MutatedPositions(g) :
            mutated_genes[g][p]
                = InputBase(MinOf(InputRowsAt(stored_from[g].contig_id, p)))

\* C4's case: a stored working copy with a position two rows give different
\* bases for
C4_Witness ==
    \E g \in DOMAIN stored_from :
        \E p \in MutatedPositions(g) :
            \E i, j \in InputRowsAt(stored_from[g].contig_id, p) :
                InputBase(i) # InputBase(j)

(***************************************************************************)
(* C5.  Every entry of the final result has length end - start + 1 of the  *)
(* record whose coordinates sliced it, whatever record was accepted.       *)
(***************************************************************************)
C5_SliceLength ==
    /\ DOMAIN sliced_by = DOMAIN mutated_genes_result
    /\ \A g \in DOMAIN mutated_genes_result :
         Len(mutated_genes_result[g])
            = sliced_by[g].end_position - sliced_by[g].start_position + 1

\* C5's case: a finished run with a full-span entry and an entry sliced by a
\* record whose start is beyond its end
C5_Witness ==
    /\ pc = "done"
    /\ \E g \in DOMAIN mutated_genes_result : Len(mutated_genes_result[g]) >= 2
    /\ \E g \in DOMAIN mutated_genes_result :
         sliced_by[g].start_position > sliced_by[g].end_position

(***************************************************************************)
(* C6.  Every record of the gene coordinate index has start_position >= 1  *)
(* and end_position >= 1: a row with a coordinate of 0 is not indexed.     *)
(***************************************************************************)
C6_CoordinatesPositive ==
    \A c \in DOMAIN gene_positions_map :
        \A i \in DOMAIN gene_positions_map[c] :
            /\ gene_positions_map[c][i].start_position >= 1
            /\ gene_positions_map[c][i].end_position >= 1

(***************************************************************************)
(* C7.  The coordinates that slice a gene are those of the first record of *)
(* its gene id in the order of the gene coordinates file.                  *)
(***************************************************************************)
C7_FirstInInputOrder ==
    \A g \in DOMAIN sliced_by : sliced_by[g] = FirstInInput(g)

(***************************************************************************)
(* C8.  After the engine phase the value stored for a gene id is the       *)
(* working copy of the last record of its list whose contig is present,    *)
(* earlier ones being overwritten; a gene id with no such record has no    *)
(* value.                                                                  *)
(***************************************************************************)
C8_LastRecordStored ==
    pc \in {"extract", "done"} =>
        /\ DOMAIN stored_from = DOMAIN mutated_genes
        /\ \A g \in DOMAIN gene_contigs_map :
             LET present == PresentRecords(gene_contigs_map[g])
             IN  IF present = {}
                 THEN g \notin DOMAIN mutated_genes
                 ELSE /\ g \in DOMAIN mutated_genes
                      /\ stored_from[g] = gene_contigs_map[g][MaxOf(present)]
                      /\ mutated_genes[g]
                            = ExpectedCopy(gene_contigs_map[g][MaxOf(present)])

\* C8's case: a finished run in which the stored sequence of a gene id came
\* from another record, on another contig, than the one that sliced it
C8_Witness ==
    /\ pc = "done"
    /\ \E g \in DOMAIN mutated_genes_result :
         /\ stored_from[g] # sliced_by[g]
         /\ stored_from[g].contig_id # sliced_by[g].contig_id
         /\ mutated_genes[g] # ExpectedCopy(sliced_by[g])

(***************************************************************************)
(* C9.  The result collection is empty until the engine phase, changes     *)
(* only during it, and every task has run to its end in every state in     *)
(* which extraction holds the read lock.                                   *)
(***************************************************************************)
C9_FinalizedBeforeRead ==
    /\ [](pc \in {"read_contigs", "read_mutations", "read_gene_positions", "organize"}
            => mutated_genes = EmptyMap)
    /\ [](pc \in {"extract", "done"}
            => \A g \in DOMAIN gene_contigs_map :
                  /\ g \in DOMAIN task_idx
                  /\ task_idx[g] = Len(gene_contigs_map[g]))
    /\ [][mutated_genes' # mutated_genes => (pc = "engine" /\ pc' = "engine")]_vars

\* C9's case: extraction has the read lock after two tasks wrote
C9_Witness ==
    /\ pc = "extract"
    /\ Cardinality(DOMAIN mutated_genes) = 2
    /\ num_threads = MaxThreads

(***************************************************************************)
(* C10.  A key of the result collection changes only in a step of the task *)
(* of that gene id, and when the engine phase is over the collection is    *)
(* what one worker gets that runs the tasks one after the other, whatever  *)
(* the interleaving and the pool size.                                     *)
(***************************************************************************)
RECURSIVE RunRecords(_, _, _)
RunRecords(gene_info_list, g, acc) ==
    IF gene_info_list = << >> THEN acc
    ELSE RunRecords(Tail(gene_info_list), g,
             IF Head(gene_info_list).contig_id \in DOMAIN contigs
             THEN Insert(acc, g, ExpectedCopy(Head(gene_info_list)))
             ELSE acc)

RECURSIVE RunGenes(_, _)
RunGenes(genes, acc) ==
    IF genes = {} THEN acc
    ELSE LET g == CHOOSE x \in genes : TRUE
         IN  RunGenes(genes \ {g}, RunRecords(gene_contigs_map[g], g, acc))

C10_OneWriterPerKey ==
    /\ [][\A k \in DOMAIN mutated_genes' :
            (k \notin DOMAIN mutated_genes \/ mutated_genes'[k] # mutated_genes[k])
            => /\ k \in DOMAIN task_idx
               /\ task_idx'[k] = task_idx[k] + 1
               /\ \A h \in DOMAIN task_idx \ {k} : task_idx'[h] = task_idx[h]]_vars
    /\ [](pc = "extract" => mutated_genes = RunGenes(DOMAIN gene_contigs_map, EmptyMap))

\* C10's case: on a pool of several workers one task is between two of its
\* records while the other task has stored its value
C10_Witness ==
    /\ pc = "engine"
    /\ num_threads = MaxThreads
    /\ \E g, h \in DOMAIN task_idx :
         /\ g # h
         /\ g \in Running
         /\ g \in DOMAIN mutated_genes
         /\ h \in DOMAIN mutated_genes
         /\ task_idx[h] = Len(gene_contigs_map[h])

====
